---------------------------- MODULE Spec2Model ----------------------------
(* A model of dwny's bulk downloader (package downloader): the          *)
(* orchestrator Download, its worker pool, the per-URL pipeline          *)
(* downloadFile with its resume decision and transfer loop, and the      *)
(* shared progress renderer updateProgress.                              *)
EXTENDS Integers, Sequences, FiniteSets, TLC

VARIABLES
    MaxSimultaneousDownloads, \* package variable, downloader.go:19
    currentLine,              \* package variable, downloader.go:20
    reqWorkers,               \* the numWorkers argument of NewDownloader
    urls,                     \* d.urls
    numWorkers,               \* d.numWorkers
    results,                  \* d.results
    ctxDone,                  \* ctx.Done() is closed
    jobs,                     \* buffered contents of the jobs channel
    jobsClosed,               \* close(jobs) has run
    wg,                       \* the WaitGroup counter
    main,                     \* Download's position: [pc, i, idx]
    workers,                  \* worker goroutine i |-> its locals
    server,                   \* what the remote end answers for each URL
    fs,                       \* the output directory: path |-> contents
    cursorLine,               \* the line the terminal cursor really is on
    screen,                   \* terminal line |-> the file last drawn on it
    renderers,                \* updateProgress calls in progress (SpecRender)
    inFlightAtCancel,         \* history: the workers inside downloadFile
                              \* when cancel() fired, until they record
    pretty                    \* a call of prettySize: [pc, arg, size, i, out]

vars == <<MaxSimultaneousDownloads, currentLine, reqWorkers, urls, numWorkers,
          results, ctxDone, jobs, jobsClosed, wg, main, workers, server, fs,
          cursorLine, screen, renderers, inFlightAtCancel, pretty>>

termVars == <<currentLine, cursorLine, screen, renderers, pretty>>

-----------------------------------------------------------------------------
(* Bounds of the model *)

MaxUrls == 3          \* longest URL list of the pool specification
MaxFairUrls == 2      \* longest URL list of the fair specification
MaxLocal == 3         \* longest pre-existing local file
MaxBody == 2          \* longest body of a response without a usable size
MaxRenders == 2       \* updateProgress calls per worker in SpecRender
MaxSpread == 3        \* byte counts this far from a unit boundary

(* Program constants *)

BufferSize == 1024    \* make([]byte, 1024)
StatusOK == 200       \* http.StatusOK

-----------------------------------------------------------------------------
(* URLs: <<host, last path segment>>; host "%" does not parse. *)

UrlA == <<"a", "f">>
UrlB == <<"b", "f">>
UrlG == <<"a", "g">>
UrlBad == <<"%", "g">>
URLs == {UrlA, UrlB, UrlG, UrlBad}
Paths == {"f", "g"}

\* http.NewRequestWithContext fails on a URL that does not parse
NewRequestOk(url) == url[1] # "%"

\* filepath.Join(d.outputDir, filepath.Base(url))
OutputPath(url) == url[2]

-----------------------------------------------------------------------------
(* strconv.ParseInt(s, 10, 64) on a string given as a sequence of characters *)

Digits == <<"0", "1", "2", "3", "4", "5", "6", "7", "8", "9">>

IsDigit(c) == \E d \in 1..10 : Digits[d] = c

DigitVal(c) == (CHOOSE d \in 1..10 : Digits[d] = c) - 1

RECURSIVE DecVal(_)
DecVal(s) ==
    IF s = <<>> THEN 0
    ELSE 10 * DecVal(SubSeq(s, 1, Len(s) - 1)) + DigitVal(s[Len(s)])

ParseInt(s) ==
    LET signed == s # <<>> /\ s[1] \in {"+", "-"}
        body == IF signed THEN Tail(s) ELSE s
    IN  IF body = <<>> \/ \E k \in 1..Len(body) : ~IsDigit(body[k])
        THEN [ok |-> FALSE, val |-> 0]
        ELSE [ok |-> TRUE,
              val |-> IF signed /\ s[1] = "-" THEN 0 - DecVal(body)
                      ELSE DecVal(body)]

\* getFileSize: the header absent reads as the empty string
getFileSize(header) ==
    IF header = <<>> THEN 0
    ELSE IF ~ParseInt(header).ok THEN 0
    ELSE ParseInt(header).val


-----------------------------------------------------------------------------
(* The remote end and the output directory *)

Statuses == {StatusOK, 206, 404}

Headers == {<<>>, <<"0">>, <<"1">>, <<"2">>, <<"3">>, <<"-", "1">>,
            <<"+", "2">>, <<"x">>}

\* A response: status line, Content-Length header, length of the body.
\* net/http delivers exactly the declared number of body bytes when the
\* header declares a positive size.
BodyLens(header) ==
    IF ParseInt(header).ok /\ ParseInt(header).val > 0
    THEN {ParseInt(header).val}
    ELSE 0..MaxBody

Responses ==
    UNION {[status : Statuses, header : {h}, bodyLen : BodyLens(h)] :
              h \in Headers}

\* The body of a response is the bytes 1, 2, ..., bodyLen.
BodyBytes(from, n) == [k \in 1..n |-> from + k]

\* A path of the output directory: no file, or a file and its bytes
Absent == [exists |-> FALSE, data |-> <<>>]

File(bytes) == [exists |-> TRUE, data |-> bytes]

\* A file that exists before the run holds zero bytes 0, 0, ...
OldFile(n) == File([k \in 1..n |-> 0])

FileStates == {Absent} \cup {OldFile(n) : n \in 0..MaxLocal}

Max(a, b) == IF a > b THEN a ELSE b

Min(a, b) == IF a < b THEN a ELSE b

\* file.Write at the handle's offset
WriteAt(content, off, bytes) ==
    [k \in 1..Max(Len(content), off + Len(bytes)) |->
        IF k > off /\ k <= off + Len(bytes) THEN bytes[k - off]
        ELSE IF k <= Len(content) THEN content[k]
        ELSE 0]

-----------------------------------------------------------------------------
(* updateProgress: the text it draws *)

\* suffixes := []string{"B", "KB", ...}, each a sequence of characters
Suffixes ==
    << <<"B">>, <<"K", "B">>, <<"M", "B">>, <<"G", "B">>, <<"T", "B">>,
       <<"P", "B">>, <<"E", "B">>, <<"Z", "B">>, <<"Y", "B">> >>

\* the divisor of one unit step
Kilo == 1024

\* fmt's %d of a non-negative integer: its decimal digits
RECURSIVE Decimal(_)
Decimal(n) ==
    IF n < 10 THEN <<Digits[n + 1]>>
    ELSE Decimal(n \div 10) \o <<Digits[(n % 10) + 1]>>

\* fmt.Sprintf("%d %s", size, suffixes[i]); i counts from 0
Sprintf(size, i) == Decimal(size) \o <<" ">> \o Suffixes[i + 1]

\* for size > 1024 && i < len(suffixes)-1
PrettyLoopCond(size, i) == size > Kilo /\ i < Len(Suffixes) - 1

\* prettySize(size) from its i-th loop test on
RECURSIVE PrettySizeFrom(_, _)
PrettySizeFrom(size, i) ==
    IF PrettyLoopCond(size, i) THEN PrettySizeFrom(size \div Kilo, i + 1)
    ELSE Sprintf(size, i)

prettySize(size) == PrettySizeFrom(size, 0)

\* barWidth := 30
BarWidth == 30

\* faulty variant: the percentage is not limited to 100
ProgressUnlimited(downloadedSize, totalSize) == downloadedSize * 100

\* progress = min(downloadedSize / totalSize * 100, 100), as the numerator of
\* a fraction over totalSize (totalSize > 0)
Progress(downloadedSize, totalSize) ==
    Min(downloadedSize * 100, 100 * totalSize)

\* %.2f of progress: hundredths of a percent, rounded to the nearest
Percent(downloadedSize, totalSize) ==
    (2 * 100 * Progress(downloadedSize, totalSize) + totalSize)
        \div (2 * totalSize)

\* filledWidth := int(progress / 100 * float64(barWidth))
FilledWidth(downloadedSize, totalSize) ==
    (Progress(downloadedSize, totalSize) * BarWidth) \div (100 * totalSize)

\* nothing drawn yet for this download
NoText == [kind |-> "none", percent |-> 0, filled |-> 0, size |-> <<>>]

\* the text updateProgress prints for a download
ProgressText(downloadedSize, totalSize) ==
    IF totalSize <= 0
    THEN [kind |-> "unknown", percent |-> 0, filled |-> 0,
          size |-> prettySize(downloadedSize)]
    ELSE [kind |-> "bar",
          percent |-> Percent(downloadedSize, totalSize),
          filled |-> FilledWidth(downloadedSize, totalSize),
          size |-> <<>>]

-----------------------------------------------------------------------------
(* NewDownloader *)

\* the value MaxSimultaneousDownloads is declared with
DefaultMaxSimultaneousDownloads == 10

\* faulty variant: no upper limit on the worker count
ClampWorkersUncapped(n, cap) ==
    IF n <= 0 THEN 1
    ELSE n

\* if numWorkers <= 0 ... else if numWorkers > MaxSimultaneousDownloads
ClampWorkers(n, cap) ==
    IF n <= 0 THEN 1
    ELSE IF n > cap THEN cap
    ELSE n

(* Errors a DownloadResult can carry; NoErr is nil. *)
NoErr == ""
ErrRequest == "failed to create request"
ErrNetwork == "failed to make request"
ErrStatus == "non-OK status code"
ErrZeroSize == "file size is 0"
ErrCancelled == "download cancelled"
ErrCreate == "create failed"
ErrOpen == "open failed"
ErrRead == "read failed"
ErrWrite == "write failed"

NoUrl == <<"", "">>

\* the goroutines Download could start
Slots == 0..2

\* faulty variant: every worker is handed line 0
WorkerLineZero(i) == 0

\* go d.worker(ctx, jobs, &wg, i): the loop index is the worker's line
WorkerLine(i) == i

\* a worker goroutine's locals before it runs
NewWorker(i) ==
    [pc |-> "unborn", line |-> WorkerLine(i), url |-> NoUrl, bodyLen |-> 0, pos |-> 0,
     totalSize |-> 0, downloadedSize |-> 0, plan |-> "", mode |-> "",
     offset |-> 0, shown |-> NoText,
     Filename |-> "", Err |-> NoErr]

InitState(UrlLists, Servers, Dirs, Configs) ==
    /\ \E c \in Configs :
          /\ reqWorkers = c[1]
          /\ MaxSimultaneousDownloads = c[2]
    /\ currentLine = 0
    /\ urls \in UrlLists
    /\ numWorkers = ClampWorkers(reqWorkers, MaxSimultaneousDownloads)
    /\ results = <<>>
    /\ ctxDone = FALSE
    /\ jobs = <<>>
    /\ jobsClosed = FALSE
    /\ wg = 0
    /\ main = [pc |-> "spawn", i |-> 0, idx |-> 1]
    /\ workers = [i \in Slots |-> NewWorker(i)]
    /\ server \in Servers
    /\ fs \in Dirs
    /\ cursorLine = 0
    /\ screen = {}
    /\ renderers = [w \in Slots |-> [pc |-> "idle", calls |-> 0]]
    /\ inFlightAtCancel = {}

\* no call of prettySize is under way
PrettyIdle == [pc |-> "idle", arg |-> 0, size |-> 0, i |-> 0, out |-> <<>>]

InitWith(UrlLists, Servers, Dirs, Configs) ==
    /\ InitState(UrlLists, Servers, Dirs, Configs)
    /\ pretty = PrettyIdle

-----------------------------------------------------------------------------
(* Download: the orchestrator *)

\* make(chan string, len(d.urls))
JobsCap == Len(urls)

\* faulty variant: the loop runs to the requested count, not the clamped one
SpawnLimitRequested == reqWorkers

\* for i := range d.numWorkers
SpawnLimit == numWorkers

\* wg.Add(1); go d.worker(ctx, jobs, &wg, i)
Spawn ==
    /\ main.pc = "spawn"
    /\ main.i < SpawnLimit
    /\ main.i \in Slots
    /\ wg' = wg + 1
    /\ workers' = [workers EXCEPT ![main.i].pc = "select"]
    /\ main' = [main EXCEPT !.i = main.i + 1]
    /\ UNCHANGED <<MaxSimultaneousDownloads, reqWorkers, urls, numWorkers,
                   results, ctxDone, jobs, jobsClosed, server, fs>>
    /\ UNCHANGED <<termVars, inFlightAtCancel>>

\* the range over d.numWorkers is exhausted: on to the job loop
SpawnDone ==
    /\ main.pc = "spawn"
    /\ main.i >= SpawnLimit
    /\ main' = [main EXCEPT !.pc = "enqueue"]
    /\ UNCHANGED <<MaxSimultaneousDownloads, reqWorkers, urls, numWorkers,
                   results, ctxDone, jobs, jobsClosed, wg, workers, server, fs>>
    /\ UNCHANGED <<termVars, inFlightAtCancel>>

\* the send case of the job loop's select is ready
SendReady == Len(jobs) < JobsCap

\* the ctx.Done() case of the job loop's select is ready
BreakReady == ctxDone

\* case jobs <- url
EnqueueSend ==
    /\ main.pc = "enqueue"
    /\ main.idx <= Len(urls)
    /\ SendReady
    /\ jobs' = Append(jobs, urls[main.idx])
    /\ main' = [main EXCEPT !.idx = main.idx + 1]
    /\ UNCHANGED <<MaxSimultaneousDownloads, reqWorkers, urls, numWorkers,
                   results, ctxDone, jobsClosed, wg, workers, server, fs>>
    /\ UNCHANGED <<termVars, inFlightAtCancel>>

\* case <-ctx.Done(): break jobLoop
EnqueueBreak ==
    /\ main.pc = "enqueue"
    /\ main.idx <= Len(urls)
    /\ BreakReady
    /\ main' = [main EXCEPT !.pc = "close"]
    /\ UNCHANGED <<MaxSimultaneousDownloads, reqWorkers, urls, numWorkers,
                   results, ctxDone, jobs, jobsClosed, wg, workers, server, fs>>
    /\ UNCHANGED <<termVars, inFlightAtCancel>>

\* the range over d.urls is exhausted
EnqueueEnd ==
    /\ main.pc = "enqueue"
    /\ main.idx > Len(urls)
    /\ main' = [main EXCEPT !.pc = "close"]
    /\ UNCHANGED <<MaxSimultaneousDownloads, reqWorkers, urls, numWorkers,
                   results, ctxDone, jobs, jobsClosed, wg, workers, server, fs>>
    /\ UNCHANGED <<termVars, inFlightAtCancel>>

\* close(jobs)
CloseJobs ==
    /\ main.pc = "close"
    /\ jobsClosed' = TRUE
    /\ main' = [main EXCEPT !.pc = "wait"]
    /\ UNCHANGED <<MaxSimultaneousDownloads, reqWorkers, urls, numWorkers,
                   results, ctxDone, jobs, wg, workers, server, fs>>
    /\ UNCHANGED <<termVars, inFlightAtCancel>>

\* faulty variant: Download does not wait for the workers
WaitSkipped == TRUE

\* wg.Wait() returns
WaitReady == wg = 0

\* wg.Wait(); return d.results
WaitReturn ==
    /\ main.pc = "wait"
    /\ WaitReady
    /\ main' = [main EXCEPT !.pc = "done"]
    /\ UNCHANGED <<MaxSimultaneousDownloads, reqWorkers, urls, numWorkers,
                   results, ctxDone, jobs, jobsClosed, wg, workers, server, fs>>
    /\ UNCHANGED <<termVars, inFlightAtCancel>>

\* worker w is inside downloadFile
InFlight(w) ==
    workers[w].pc \in {"fetch", "resp", "stat", "open", "check", "read"}

\* the interrupt handler of main calls cancel()
Cancel ==
    /\ ~ctxDone
    /\ main.pc # "done"
    /\ ctxDone' = TRUE
    /\ inFlightAtCancel' = {w \in Slots : InFlight(w)}
    /\ UNCHANGED <<MaxSimultaneousDownloads, reqWorkers, urls, numWorkers,
                   results, jobs, jobsClosed, wg, main, workers, server, fs>>
    /\ UNCHANGED termVars

-----------------------------------------------------------------------------
(* worker: the select at the head of its loop *)

\* the receive case is ready with a job (buffered jobs outlive close)
RecvReady == jobs # <<>>

\* faulty variant: the worker never sees the channel closed
ClosedNeverSeen == FALSE

\* faulty variant: a closed channel reads as closed while jobs are still buffered
ClosedReadyUndrained == jobsClosed

\* the receive case is ready with ok = false: closed and drained
ClosedReady == jobsClosed /\ jobs = <<>>

\* the ctx.Done() case is ready
DoneReady == ctxDone

WorkerFrame == UNCHANGED <<MaxSimultaneousDownloads, reqWorkers, urls,
                           numWorkers, server>>

\* case url, ok := <-jobs, with ok
WorkerRecv(w) ==
    /\ workers[w].pc = "select"
    /\ RecvReady
    /\ jobs' = Tail(jobs)
    /\ workers' = [workers EXCEPT ![w] =
                     [NewWorker(w) EXCEPT !.pc = "fetch", !.url = Head(jobs)]]
    /\ UNCHANGED <<results, ctxDone, jobsClosed, wg, main, fs>>
    /\ WorkerFrame /\ UNCHANGED <<termVars, inFlightAtCancel>>

\* case url, ok := <-jobs, with !ok: return (and the deferred wg.Done())
WorkerChanClosed(w) ==
    /\ workers[w].pc = "select"
    /\ ClosedReady
    /\ workers' = [workers EXCEPT ![w].pc = "exited"]
    /\ wg' = wg - 1
    /\ UNCHANGED <<results, ctxDone, jobs, jobsClosed, main, fs>>
    /\ WorkerFrame /\ UNCHANGED <<termVars, inFlightAtCancel>>

\* case <-ctx.Done(): return (and the deferred wg.Done())
WorkerCtxDone(w) ==
    /\ workers[w].pc = "select"
    /\ DoneReady
    /\ workers' = [workers EXCEPT ![w].pc = "exited"]
    /\ wg' = wg - 1
    /\ UNCHANGED <<results, ctxDone, jobs, jobsClosed, main, fs>>
    /\ WorkerFrame /\ UNCHANGED <<termVars, inFlightAtCancel>>

-----------------------------------------------------------------------------
(* downloadFile *)

\* downloadFile returns result with this error; the worker appends it next
Finish(wk, err) == [wk EXCEPT !.pc = "record", !.Err = err]

\* faulty variant: every 2xx status is let through
StatusRejectedOutside2xx(status) == status < 200 \/ status > 299

\* the status check
StatusRejected(status) == status # StatusOK

\* faulty variant: only a negative size is refused
SizeRejectedNegative(size) == size < 0

\* the size check
SizeRejected(size) == size = 0

\* http.NewRequestWithContext and d.client.Do: Do fails at once on a context
\* already cancelled, and may fail for reasons of its own
Fetch(w) ==
    LET wk == workers[w]
    IN  /\ wk.pc = "fetch"
        /\ \/ /\ ~NewRequestOk(wk.url)
              /\ workers' = [workers EXCEPT ![w] = Finish(wk, ErrRequest)]
           \/ /\ NewRequestOk(wk.url)
              /\ workers' = [workers EXCEPT ![w] = Finish(wk, ErrNetwork)]
           \/ /\ NewRequestOk(wk.url)
              /\ ~ctxDone
              /\ workers' = [workers EXCEPT ![w] =
                    [wk EXCEPT !.pc = "resp",
                               !.bodyLen = server[wk.url].bodyLen]]
        /\ UNCHANGED <<results, ctxDone, jobs, jobsClosed, wg, main, fs>>
        /\ WorkerFrame /\ UNCHANGED <<termVars, inFlightAtCancel>>

\* the checks on the response: status, then getFileSize and the size check
Validate(w) ==
    LET wk == workers[w]
        r == server[wk.url]
        size == getFileSize(r.header)
    IN  /\ wk.pc = "resp"
        /\ workers' = [workers EXCEPT ![w] =
              IF StatusRejected(r.status) THEN Finish(wk, ErrStatus)
              ELSE IF SizeRejected(size) THEN Finish(wk, ErrZeroSize)
              ELSE [wk EXCEPT !.pc = "stat", !.totalSize = size]]
        /\ UNCHANGED <<results, ctxDone, jobs, jobsClosed, wg, main, fs>>
        /\ WorkerFrame /\ UNCHANGED <<termVars, inFlightAtCancel>>

\* faulty variant: a local file of the remote size is fetched again
PlanRefetchingEqual(local, size) ==
    IF ~local.exists THEN "Fresh"
    ELSE IF Len(local.data) >= size \/ Len(local.data) = 0 THEN "Restart"
    ELSE "Resume"

\* faulty variant: an empty local file is resumed, not restarted
PlanResumingEmpty(local, size) ==
    IF ~local.exists THEN "Fresh"
    ELSE IF Len(local.data) > size THEN "Restart"
    ELSE IF Len(local.data) = size THEN "AlreadyComplete"
    ELSE "Resume"

\* the resume decision on os.Stat's answer and the remote size
Plan(local, size) ==
    IF ~local.exists THEN "Fresh"
    ELSE IF Len(local.data) > size \/ Len(local.data) = 0 THEN "Restart"
    ELSE IF Len(local.data) = size THEN "AlreadyComplete"
    ELSE "Resume"

\* startDownload opens with os.Create, continueDownload with O_APPEND|O_WRONLY
OpenMode(plan) == IF plan = "Resume" THEN "append" ELSE "create"

\* os.Stat and the branch taken on it
Stat(w) ==
    LET wk == workers[w]
        path == OutputPath(wk.url)
        local == fs[path]
        plan == Plan(local, wk.totalSize)
        named == [wk EXCEPT !.Filename = path, !.plan = plan]
    IN  /\ wk.pc = "stat"
        /\ workers' = [workers EXCEPT ![w] =
              IF plan = "AlreadyComplete" THEN Finish(named, NoErr)
              ELSE IF plan = "Resume"
                   THEN [named EXCEPT !.pc = "open",
                                      !.downloadedSize = Len(local.data)]
              ELSE [named EXCEPT !.pc = "open"]]
        /\ UNCHANGED <<results, ctxDone, jobs, jobsClosed, wg, main, fs>>
        /\ WorkerFrame /\ UNCHANGED <<termVars, inFlightAtCancel>>

\* os.Create / os.OpenFile at the head of startDownload / continueDownload
Open(w) ==
    LET wk == workers[w]
        path == wk.Filename
        mode == OpenMode(wk.plan)
    IN  /\ wk.pc = "open"
        /\ \/ /\ mode = "create"
              /\ fs' = [fs EXCEPT ![path] = File(<<>>)]
              /\ workers' = [workers EXCEPT ![w] =
                    [wk EXCEPT !.pc = "check", !.mode = mode, !.offset = 0]]
           \/ /\ mode = "create"
              /\ fs' = fs
              /\ workers' = [workers EXCEPT ![w] = Finish(wk, ErrCreate)]
           \/ /\ mode = "append"
              /\ fs[path].exists
              /\ fs' = fs
              /\ workers' = [workers EXCEPT ![w] =
                    [wk EXCEPT !.pc = "check", !.mode = mode]]
           \/ /\ mode = "append"
              /\ fs' = fs
              /\ workers' = [workers EXCEPT ![w] = Finish(wk, ErrOpen)]
        /\ UNCHANGED <<results, ctxDone, jobs, jobsClosed, wg, main>>
        /\ WorkerFrame /\ UNCHANGED <<termVars, inFlightAtCancel>>

\* faulty variant: the transfer loop never looks at the context
CancelIgnored == FALSE

\* the select at the head of the transfer loop: ctx.Done() wins over default
CancelSeen == ctxDone

\* faulty variant: a cancelled transfer returns nil
OnCancelSilent(wk) == Finish(wk, NoErr)

\* return errors.New("download cancelled")
OnCancel(wk) == Finish(wk, ErrCancelled)

Check(w) ==
    LET wk == workers[w]
    IN  /\ wk.pc = "check"
        /\ workers' = [workers EXCEPT ![w] =
              IF CancelSeen THEN OnCancel(wk)
              ELSE [wk EXCEPT !.pc = "read"]]
        /\ UNCHANGED <<results, ctxDone, jobs, jobsClosed, wg, main, fs>>
        /\ WorkerFrame /\ UNCHANGED <<termVars, inFlightAtCancel>>

\* what resp.Body.Read(buffer) can return with `left` bytes of body unread:
\* some bytes, the last bytes together with io.EOF, io.EOF alone, or an error
ReadOutcomes(left) ==
    {[n |-> n, err |-> NoErr] : n \in 1..Min(BufferSize, left)}
    \cup (IF left > 0 /\ left <= BufferSize
          THEN {[n |-> left, err |-> "EOF"]} ELSE {})
    \cup (IF left = 0 THEN {[n |-> 0, err |-> "EOF"]} ELSE {})
    \cup {[n |-> 0, err |-> ErrRead]}

\* one pass of the default branch: Read, Write, count, updateProgress (its
\* text; the cursor movement is SpecRender's)
Read(w) ==
    LET wk == workers[w]
        path == wk.Filename
        off == IF wk.mode = "append" THEN Len(fs[path].data) ELSE wk.offset
    IN  /\ wk.pc = "read"
        /\ \E out \in ReadOutcomes(wk.bodyLen - wk.pos) :
              LET got == [wk EXCEPT !.pos = wk.pos + out.n]
              IN  \/ /\ out.err = "EOF"
                     /\ fs' = fs
                     /\ workers' = [workers EXCEPT ![w] = Finish(got, NoErr)]
                  \/ /\ out.err = ErrRead
                     /\ fs' = fs
                     /\ workers' = [workers EXCEPT ![w] = Finish(got, ErrRead)]
                  \/ /\ out.err = NoErr
                     /\ fs' = fs
                     /\ workers' = [workers EXCEPT ![w] = Finish(got, ErrWrite)]
                  \/ /\ out.err = NoErr
                     /\ fs' = [fs EXCEPT ![path] =
                                 File(WriteAt(fs[path].data, off,
                                              BodyBytes(wk.pos, out.n)))]
                     /\ workers' = [workers EXCEPT ![w] =
                           [got EXCEPT !.pc = "check",
                                       !.offset = off + out.n,
                                       !.downloadedSize = wk.downloadedSize + out.n,
                                       !.shown =
                                          ProgressText(wk.downloadedSize + out.n,
                                                       wk.totalSize)]]
        /\ UNCHANGED <<results, ctxDone, jobs, jobsClosed, wg, main>>
        /\ WorkerFrame /\ UNCHANGED <<termVars, inFlightAtCancel>>

\* faulty variant: a failed result overwrites the last entry instead of being added
AppendOverwriting(res, r) ==
    IF r.Err # NoErr /\ res # <<>> THEN [res EXCEPT ![Len(res)] = r]
    ELSE Append(res, r)

\* d.mu.Lock(); d.results = append(d.results, result); d.mu.Unlock()
AppendResult(res, r) == Append(res, r)

Record(w) ==
    LET wk == workers[w]
    IN  /\ wk.pc = "record"
        /\ results' = AppendResult(results,
                         [URL |-> wk.url, Filename |-> wk.Filename, Err |-> wk.Err])
        /\ workers' = [workers EXCEPT ![w] = [NewWorker(w) EXCEPT !.pc = "select"]]
        /\ inFlightAtCancel' = inFlightAtCancel \ {w}
        /\ UNCHANGED <<ctxDone, jobs, jobsClosed, wg, main, fs>>
        /\ WorkerFrame /\ UNCHANGED termVars

-----------------------------------------------------------------------------
(* The pool specification *)

PoolUrlCycle == <<UrlA, UrlB, UrlA, UrlBad, UrlG>>

PoolUrl(k) == PoolUrlCycle[((k - 1) % Len(PoolUrlCycle)) + 1]

UrlListsTo(longest) == {[k \in 1..n |-> PoolUrl(k)] : n \in 0..longest}

PoolUrlLists == UrlListsTo(MaxUrls)

PoolServers ==
    {[u \in URLs |->
        IF u = UrlA
        THEN [status |-> StatusOK, header |-> <<"2">>, bodyLen |-> 2]
        ELSE [status |-> StatusOK, header |-> <<"1">>, bodyLen |-> 1]]}

PoolDirs == {[p \in Paths |-> IF p = "f" THEN OldFile(1) ELSE Absent]}

\* <<requested worker count, MaxSimultaneousDownloads>>
PoolConfigs == {<<0 - 1, 10>>, <<0, 10>>, <<1, 10>>, <<2, 10>>,
                <<3, 1>>, <<50, 1>>}

Init == InitWith(PoolUrlLists, PoolServers, PoolDirs, PoolConfigs)

WorkerStep(w) ==
    \/ WorkerRecv(w)
    \/ WorkerChanClosed(w)
    \/ WorkerCtxDone(w)
    \/ Fetch(w)
    \/ Validate(w)
    \/ Stat(w)
    \/ Open(w)
    \/ Check(w)
    \/ Read(w)
    \/ Record(w)

MainStep ==
    \/ Spawn
    \/ SpawnDone
    \/ EnqueueSend
    \/ EnqueueBreak
    \/ EnqueueEnd
    \/ CloseJobs
    \/ WaitReturn

Next ==
    \/ MainStep
    \/ Cancel
    \/ \E w \in Slots : WorkerRecv(w)
    \/ \E w \in Slots : WorkerChanClosed(w)
    \/ \E w \in Slots : WorkerCtxDone(w)
    \/ \E w \in Slots : Fetch(w)
    \/ \E w \in Slots : Validate(w)
    \/ \E w \in Slots : Stat(w)
    \/ \E w \in Slots : Open(w)
    \/ \E w \in Slots : Check(w)
    \/ \E w \in Slots : Read(w)
    \/ \E w \in Slots : Record(w)

Spec == Init /\ [][Next]_vars

-----------------------------------------------------------------------------
(* The single-download specification: one URL, one worker, every response  *)
(* and every state of the local file                                        *)

FileUrlLists == {<<u>> : u \in URLs}

DefaultResponse == [status |-> StatusOK, header |-> <<"1">>, bodyLen |-> 1]

FileServers ==
    {[u \in URLs |-> IF u = UrlA THEN r ELSE DefaultResponse] : r \in Responses}

FileDirs == {[p \in Paths |-> IF p = "f" THEN f ELSE Absent] : f \in FileStates}

InitFile == InitWith(FileUrlLists, FileServers, FileDirs, {<<1, 10>>})

SpecFile == InitFile /\ [][Next]_vars

-----------------------------------------------------------------------------
(* updateProgress, statement by statement.  The transfer of worker w calls  *)
(* it after every chunk with download.line = w; nothing orders the calls of *)
(* different workers.  The terminal keeps its own cursor line: a cursor     *)
(* movement shifts it, text lands on it.                                     *)

\* ESC[nA and ESC[nB: a count of 0 moves one line, a negative one is no
\* movement at all
Moved(n) == IF n = 0 THEN 1 ELSE IF n < 0 THEN 0 ELSE n

\* download.line of the transfers of worker w: NewDownload(filepath, size, line)
DisplayLine(w) == workers[w].line

RenderFrame ==
    UNCHANGED <<MaxSimultaneousDownloads, reqWorkers, urls, numWorkers,
                results, ctxDone, jobs, jobsClosed, wg, main, workers,
                server, fs, inFlightAtCancel, pretty>>

\* the transfer loop of worker w calls updateProgress(download)
RenderCall(w) ==
    /\ w < numWorkers
    /\ renderers[w].pc = "idle"
    /\ renderers[w].calls < MaxRenders
    /\ renderers' = [renderers EXCEPT ![w] =
                       [pc |-> "test", calls |-> renderers[w].calls + 1]]
    /\ UNCHANGED <<currentLine, cursorLine, screen>>
    /\ RenderFrame

\* if currentLine > download.line ... else if currentLine < download.line
RenderTest(w) ==
    /\ renderers[w].pc = "test"
    /\ renderers' = [renderers EXCEPT ![w].pc =
                       IF currentLine > DisplayLine(w) THEN "up"
                       ELSE IF currentLine < DisplayLine(w) THEN "down"
                       ELSE "print"]
    /\ UNCHANGED <<currentLine, cursorLine, screen>>
    /\ RenderFrame

\* moveUp(currentLine - download.line)
RenderUp(w) ==
    /\ renderers[w].pc = "up"
    /\ cursorLine' = cursorLine - Moved(currentLine - DisplayLine(w))
    /\ renderers' = [renderers EXCEPT ![w].pc = "set"]
    /\ UNCHANGED <<currentLine, screen>>
    /\ RenderFrame

\* moveDown(download.line - currentLine)
RenderDown(w) ==
    /\ renderers[w].pc = "down"
    /\ cursorLine' = cursorLine + Moved(DisplayLine(w) - currentLine)
    /\ renderers' = [renderers EXCEPT ![w].pc = "set"]
    /\ UNCHANGED <<currentLine, screen>>
    /\ RenderFrame

\* currentLine = download.line
RenderSet(w) ==
    /\ renderers[w].pc = "set"
    /\ currentLine' = DisplayLine(w)
    /\ renderers' = [renderers EXCEPT ![w].pc = "print"]
    /\ UNCHANGED <<cursorLine, screen>>
    /\ RenderFrame

\* moveToStart(); fmt.Printf(...): the text replaces what the cursor's line held
RenderPrint(w) ==
    /\ renderers[w].pc = "print"
    /\ screen' = {e \in screen : e.line # cursorLine}
                    \cup {[line |-> cursorLine, text |-> w]}
    /\ renderers' = [renderers EXCEPT ![w].pc = "idle"]
    /\ UNCHANGED <<currentLine, cursorLine>>
    /\ RenderFrame

NextRender ==
    \/ \E w \in Slots : RenderCall(w)
    \/ \E w \in Slots : RenderTest(w)
    \/ \E w \in Slots : RenderUp(w)
    \/ \E w \in Slots : RenderDown(w)
    \/ \E w \in Slots : RenderSet(w)
    \/ \E w \in Slots : RenderPrint(w)

RenderConfigs == {<<1, 10>>, <<2, 10>>, <<3, 10>>}

InitRender ==
    InitWith({[k \in 1..MaxUrls |-> PoolUrl(k)]}, PoolServers, PoolDirs,
             RenderConfigs)

SpecRender == InitRender /\ [][NextRender]_vars

\* Go runs every runnable goroutine: Download and each worker keep stepping
Fairness ==
    /\ WF_vars(MainStep)
    /\ \A w \in Slots : WF_vars(WorkerStep(w))

InitFair ==
    InitWith(UrlListsTo(MaxFairUrls), PoolServers, PoolDirs, PoolConfigs)

SpecFair == InitFair /\ [][Next]_vars /\ Fairness

-----------------------------------------------------------------------------
(* Helpers of the properties *)

Count(seq, x) == Cardinality({k \in DOMAIN seq : seq[k] = x})

ResultUrls == [k \in DOMAIN results |-> results[k].URL]

Returned == main.pc = "done"

\* worker w takes a step
Steps(w) == workers'[w] # workers[w]

\* the URLs handed to the queue so far
Enqueued == SubSeq(urls, 1, main.idx - 1)

-----------------------------------------------------------------------------
(* C1: when cancellation never fires, the list Download returns holds        *)
(* exactly one result per input URL, as multisets, whatever the order in    *)
(* which the workers complete.                                               *)
C1_ExactlyOnePerUrl ==
    (Returned /\ ~ctxDone) =>
        /\ Len(results) = Len(urls)
        /\ \A u \in URLs : Count(ResultUrls, u) = Count(urls, u)

\* three URLs, two workers, completion order differing from input order
C1_Witness ==
    /\ Returned /\ ~ctxDone
    /\ Len(urls) = 3 /\ numWorkers = 2
    /\ results[1].URL # urls[1]

(* C2: the number of URLs inside downloadFile never exceeds the clamped      *)
(* worker count N, N lies in 1..MaxSimultaneousDownloads, and only the       *)
(* workers 0..N-1 ever run (one job each at a time).                         *)
C2_AtMostNInFlight ==
    /\ Cardinality({w \in Slots : InFlight(w)}) <= numWorkers
    /\ numWorkers \in 1..MaxSimultaneousDownloads
    /\ \A w \in Slots : w >= numWorkers => workers[w].pc = "unborn"

\* both workers of a two-worker pool are transferring at once
C2_Witness ==
    /\ numWorkers = 2
    /\ \A w \in 0..1 : workers[w].pc = "read"

\* the URLs no worker has dequeued: still queued, or never enqueued
NeverDequeuedCount(u) ==
    Count(jobs, u) + Count(SubSeq(urls, main.idx, Len(urls)), u)

\* every URL has as many results as copies of it not left undequeued
NoEntryForUndequeued ==
    \A u \in URLs : Count(ResultUrls, u) + NeverDequeuedCount(u) <= Count(urls, u)

(* C3, as claimed: every URL in flight when cancellation fires ends with    *)
(* the cancellation error, and a URL never dequeued has no entry in the     *)
(* returned list.                                                            *)
C3_InFlightEndCancelled ==
    /\ \A w \in inFlightAtCancel :
          workers[w].pc = "record" => workers[w].Err = ErrCancelled
    /\ Returned => NoEntryForUndequeued

(* C3, amended: after cancellation a job in flight ends with the            *)
(* cancellation error at the first cancellation check its transfer loop     *)
(* reaches, and ends otherwise only by finishing before that check (end of  *)
(* stream, file already complete, or an error of its own); a URL never       *)
(* dequeued has no entry in the results.                                     *)
C3_CancelAtNextCheck ==
    /\ [][\A w \in Slots :
            (workers[w].pc = "check" /\ ctxDone /\ Steps(w)) =>
                (workers'[w].pc = "record" /\ workers'[w].Err = ErrCancelled)]_vars
    /\ [](Returned => NoEntryForUndequeued)

\* cancelled mid-batch: one job in flight ended cancelled, another URL was
\* never dequeued
C3_Witness ==
    /\ \E w \in inFlightAtCancel :
          workers[w].pc = "record" /\ workers[w].Err = ErrCancelled
    /\ main.idx <= Len(urls)
    /\ results # <<>>

(* C4: once the cancellation signal is set, the enqueue loop places no       *)
(* further URL on the job queue.                                             *)
C4_NoSendAfterCancel ==
    [][ctxDone => main'.idx = main.idx]_vars

(* C5: when Download returns every worker has exited, the list holds the    *)
(* result of every job a worker dequeued, and nothing is appended after the *)
(* return.                                                                   *)
C5_ReturnAfterWorkers ==
    /\ [](Returned =>
            /\ \A w \in Slots : workers[w].pc \in {"unborn", "exited"}
            /\ \A w \in Slots : w < numWorkers => workers[w].pc = "exited"
            /\ \A u \in URLs :
                  Count(ResultUrls, u) + Count(jobs, u) = Count(Enqueued, u))
    /\ [][Returned => results' = results]_vars

\* a cancelled run returns with results recorded and a job left queued
C5_Witness ==
    /\ Returned
    /\ numWorkers = 2
    /\ Len(results) >= 2
    /\ jobs # <<>>

C6_DownloadReturns == <>Returned

\* a run cancelled while the queue still held jobs has returned
C6_Witness ==
    /\ Returned /\ ctxDone
    /\ jobs # <<>>
    /\ numWorkers = 2

(* C9: for a remote size that passed the zero-size check the resume         *)
(* decision is exactly one of four outcomes: no local file gives Fresh;     *)
(* local size > remote size or local size = 0 gives Restart; local size =   *)
(* remote size gives AlreadyComplete; 0 < local size < remote size gives    *)
(* Resume with offset the local size.  Fresh and Restart open the file      *)
(* create-truncate, Resume opens it append-only.                            *)
C9_ResumeDecision ==
    [][\A w \in Slots :
        LET wk == workers[w]
            after == workers'[w]
            local == fs[OutputPath(wk.url)]
            size == wk.totalSize
            n == Len(local.data)
        IN  /\ (wk.pc = "stat" /\ Steps(w)) =>
                /\ after.plan \in {"Fresh", "Restart", "AlreadyComplete", "Resume"}
                /\ ~local.exists => after.plan = "Fresh"
                /\ (local.exists /\ (n > size \/ n = 0)) => after.plan = "Restart"
                /\ (local.exists /\ n = size) => after.plan = "AlreadyComplete"
                /\ (local.exists /\ 0 < n /\ n < size) =>
                      (after.plan = "Resume" /\ after.downloadedSize = n)
                /\ after.plan # "AlreadyComplete" => after.pc = "open"
                /\ fs' = fs
            /\ (wk.pc = "open" /\ after.pc = "check") =>
                /\ wk.plan \in {"Fresh", "Restart"} =>
                      /\ after.mode = "create"
                      /\ fs'[wk.Filename] = File(<<>>)
                /\ wk.plan = "Resume" =>
                      /\ after.mode = "append"
                      /\ fs' = fs]_vars

\* a partial local file is being resumed, opened append-only at its length
C9_Witness ==
    \E w \in Slots :
        /\ workers[w].pc = "check"
        /\ workers[w].plan = "Resume"
        /\ workers[w].mode = "append"
        /\ workers[w].downloadedSize = 2
        /\ workers[w].totalSize = 3

(* C10: when the local file's size equals the remote size (> 0),            *)
(* downloadFile returns a result with no error and leaves the file as it    *)
(* was: not opened, not truncated, nothing written, no body byte read.      *)
C10_AlreadyCompleteUntouched ==
    /\ [][\A w \in Slots :
            LET wk == workers[w]
                local == fs[OutputPath(wk.url)]
            IN  (wk.pc = "stat" /\ Steps(w) /\ local.exists
                   /\ Len(local.data) = wk.totalSize) =>
                    /\ workers'[w].pc = "record"
                    /\ workers'[w].Err = NoErr
                    /\ workers'[w].mode = ""
                    /\ workers'[w].pos = 0
                    /\ fs' = fs]_vars
    /\ [][\A w \in Slots :
            (workers[w].pc \in {"fetch", "resp", "record"} /\ Steps(w)) =>
                fs' = fs]_vars
    /\ [](\A w \in Slots :
            (workers[w].pc = "record" /\ workers[w].plan = "AlreadyComplete") =>
                /\ workers[w].totalSize > 0
                /\ fs[workers[w].Filename] = OldFile(workers[w].totalSize))

\* a complete local file of three bytes was found and left alone
C10_Witness ==
    /\ Returned
    /\ Len(results) = 1
    /\ results[1].Err = NoErr
    /\ fs["f"] = OldFile(3)

(* C8: under every interleaving of updateProgress calls, currentLine is the *)
(* terminal's cursor line whenever progress text is emitted, and every      *)
(* download's text lands on its own line.                                    *)
C8_TextOnOwnLine ==
    /\ \A w \in Slots :
          renderers[w].pc = "print" =>
              (currentLine = cursorLine /\ cursorLine = w)
    /\ \A e \in screen : e.text = e.line

\* the header is a decimal integer of value 0
DeclaresZero(header) == ParseInt(header).ok /\ ParseInt(header).val = 0

(* C11: a response with status OK whose size header declares 0 always ends  *)
(* with "file size is 0", whatever the local file is, never with success;   *)
(* no step of that job creates, truncates or writes the output file.         *)
C11_ZeroSizeRejected ==
    /\ [][\A w \in Slots :
            LET wk == workers[w]
                r == server[wk.url]
            IN  (wk.pc = "resp" /\ Steps(w) /\ r.status = StatusOK
                   /\ DeclaresZero(r.header)) =>
                    /\ workers'[w].pc = "record"
                    /\ workers'[w].Err = ErrZeroSize
                    /\ workers'[w].Filename = ""
                    /\ workers'[w].mode = ""
                    /\ fs' = fs]_vars
    /\ [][\A w \in Slots :
            (InFlight(w) /\ Steps(w) /\ workers[w].url # NoUrl
               /\ DeclaresZero(server[workers[w].url].header)) =>
                /\ fs' = fs
                /\ workers'[w].pc \notin {"stat", "open", "check", "read"}]_vars
    /\ [](\A k \in DOMAIN results :
            DeclaresZero(server[results[k].URL].header) =>
                results[k].Err # NoErr)

\* a size of 0 was declared for a URL whose partial local file exists
C11_Witness ==
    /\ Returned
    /\ Len(results) = 1
    /\ results[1].Err = ErrZeroSize
    /\ server[results[1].URL].header = <<"0">>
    /\ fs["f"] = OldFile(2)

(* C12: getFileSize returns 0 when the Content-Length header is absent or   *)
(* is not a valid non-negative integer, and the header's value otherwise;   *)
(* its result is never negative, so no negative value becomes the total     *)
(* size of the resume decision or of the transfer.                           *)
C12_SizeNeverNegative ==
    /\ \A w \in Slots :
          workers[w].pc = "resp" =>
              LET header == server[workers[w].url].header
                  parsed == ParseInt(header)
              IN  /\ getFileSize(header) >= 0
                  /\ getFileSize(header) =
                        IF parsed.ok /\ parsed.val >= 0 THEN parsed.val ELSE 0
    /\ \A w \in Slots : workers[w].totalSize >= 0

\* the worker goroutines Download has started
Started == {w \in Slots : workers[w].pc # "unborn"}

\* worker counts a caller may request, around both ends of the allowed range
RequestedCounts ==
    (0 - 2)..(DefaultMaxSimultaneousDownloads + 2)

(* C13: NewDownloader clamps the requested worker count into                *)
(* [1, MaxSimultaneousDownloads]: a request <= 0 gives 1, a request above   *)
(* the maximum (10 by default) gives the maximum, any other request is      *)
(* kept; Download starts exactly that many workers.                          *)
C13_WorkerCountClamped ==
    /\ reqWorkers <= 0 => numWorkers = 1
    /\ reqWorkers > MaxSimultaneousDownloads =>
          numWorkers = MaxSimultaneousDownloads
    /\ (0 < reqWorkers /\ reqWorkers <= MaxSimultaneousDownloads) =>
          numWorkers = reqWorkers
    /\ numWorkers \in 1..MaxSimultaneousDownloads
    /\ \A n \in RequestedCounts :
          LET kept == ClampWorkers(n, DefaultMaxSimultaneousDownloads)
          IN  /\ n <= 0 => kept = 1
              /\ n > DefaultMaxSimultaneousDownloads =>
                    kept = DefaultMaxSimultaneousDownloads
              /\ (0 < n /\ n <= DefaultMaxSimultaneousDownloads) => kept = n
    /\ Cardinality(Started) <= numWorkers
    /\ Started = {w \in Slots : w < main.i}
    /\ main.pc # "spawn" => Cardinality(Started) = numWorkers

\* fifty workers were requested under a maximum of one: one worker runs
C13_Witness ==
    /\ reqWorkers > MaxSimultaneousDownloads
    /\ main.pc = "wait"
    /\ Cardinality(Started) = 1
    /\ \E w \in Slots : InFlight(w)

-----------------------------------------------------------------------------
(* prettySize, one loop iteration at a time *)

\* byte counts around the unit boundaries
SizeMarks == {Kilo, 1536, 2 * Kilo, Kilo * Kilo, 1536 * Kilo,
              2 * Kilo * Kilo, Kilo * Kilo * Kilo}

SizeInputs ==
    0..MaxSpread
      \cup {m + d : m \in SizeMarks, d \in (0 - MaxSpread)..MaxSpread}

PrettyFrame ==
    UNCHANGED <<MaxSimultaneousDownloads, currentLine, reqWorkers, urls,
                numWorkers, results, ctxDone, jobs, jobsClosed, wg, main,
                workers, server, fs, cursorLine, screen, renderers,
                inFlightAtCancel>>

\* prettySize(size) is called: i := 0
PrettyCall ==
    /\ pretty.pc = "idle"
    /\ \E n \in SizeInputs :
          pretty' = [pc |-> "loop", arg |-> n, size |-> n, i |-> 0,
                     out |-> <<>>]
    /\ PrettyFrame

\* size /= 1024; i++
PrettyLoop ==
    /\ pretty.pc = "loop"
    /\ PrettyLoopCond(pretty.size, pretty.i)
    /\ pretty' = [pretty EXCEPT !.size = pretty.size \div Kilo,
                                !.i = pretty.i + 1]
    /\ PrettyFrame

\* return fmt.Sprintf("%d %s", size, suffixes[i])
PrettyReturn ==
    /\ pretty.pc = "loop"
    /\ ~PrettyLoopCond(pretty.size, pretty.i)
    /\ pretty' = [pretty EXCEPT !.pc = "done",
                                !.out = Sprintf(pretty.size, pretty.i)]
    /\ PrettyFrame

NextSize == PrettyCall \/ PrettyLoop \/ PrettyReturn

InitSize ==
    /\ InitState({<<UrlA>>}, PoolServers, PoolDirs, {<<1, 10>>})
    /\ pretty = PrettyIdle

SpecSize == InitSize /\ [][NextSize]_vars

\* the largest unit whose magnitude is at least 1, and that magnitude,
\* dividing by 1024 per unit and truncating
RECURSIVE LargestUnit(_)
LargestUnit(n) == IF n < Kilo THEN 0 ELSE 1 + LargestUnit(n \div Kilo)

RECURSIVE Magnitude(_)
Magnitude(n) == IF n < Kilo THEN n ELSE Magnitude(n \div Kilo)

(* C14: prettySize renders a non-negative byte count as its truncated       *)
(* integer magnitude in the largest unit, dividing by 1024 per step:        *)
(* 0 is "0 B", 1024 is "1 KB", 1536 is "1 KB", 1048576 is "1 MB"; an exact  *)
(* power of 1024 is shown as 1 of the higher unit.                           *)
C14_LargestUnit ==
    pretty.pc = "done" =>
        /\ pretty.out =
              Sprintf(Magnitude(pretty.arg), LargestUnit(pretty.arg))
        /\ pretty.arg = 0 => pretty.out = <<"0", " ", "B">>
        /\ pretty.arg = 1024 => pretty.out = <<"1", " ", "K", "B">>
        /\ pretty.arg = 1536 => pretty.out = <<"1", " ", "K", "B">>
        /\ pretty.arg = 1048576 => pretty.out = <<"1", " ", "M", "B">>

\* the step of worker w is a pass of the transfer loop ending in updateProgress
Redraws(w) ==
    /\ workers[w].pc = "read"
    /\ workers'[w].pc = "check"

(* C15: within one transfer (Fresh, Restart or Resume) with a positive      *)
(* total size, the percentage drawn by successive updateProgress calls      *)
(* never decreases and is never above 100, also when downloadedSize is      *)
(* above totalSize (Resume); the filled bar width stays within 0..30.        *)
C15_ProgressMonotoneCapped ==
    /\ [][\A w \in Slots :
            (Redraws(w) /\ workers[w].totalSize > 0) =>
                LET before == workers[w].shown
                    after == workers'[w].shown
                IN  /\ after.kind = "bar"
                    /\ after.percent >= 0
                    /\ after.percent <= 100 * 100
                    /\ after.filled \in 0..30
                    /\ before.kind = "bar" =>
                          /\ after.percent >= before.percent
                          /\ after.filled >= before.filled
                    /\ workers'[w].downloadedSize >= workers[w].totalSize =>
                          (after.percent = 100 * 100 /\ after.filled = 30)]_vars
    /\ [](\A w \in Slots :
            workers[w].shown.kind = "bar" =>
                /\ workers[w].shown.percent \in 0..(100 * 100)
                /\ workers[w].shown.filled \in 0..30)

\* a resumed transfer has grown past the remote size and shows 100 percent,
\* one draw after showing less
C15_Witness ==
    \E w \in Slots :
        /\ workers[w].plan = "Resume"
        /\ workers[w].totalSize = 3
        /\ workers[w].downloadedSize = 4
        /\ workers[w].shown.kind = "bar"
        /\ workers[w].shown.percent = 100 * 100
        /\ workers[w].shown.filled = 30
        /\ fs[workers[w].Filename].data = <<0, 1, 2, 3>>

\* the last n bytes of a file's contents
Suffix(data, n) == SubSeq(data, Len(data) - n + 1, Len(data))

(* C16: in the transfer loop of startDownload and continueDownload, when    *)
(* cancellation is already set at the start of an iteration, no further     *)
(* read or write is performed and the transfer returns the cancellation     *)
(* error; the bytes written earlier stay in the file.                        *)
C16_CancelStopsTransfer ==
    /\ [][\A w \in Slots :
            (workers[w].pc = "check" /\ ctxDone /\ Steps(w)) =>
                /\ workers'[w].pc = "record"
                /\ workers'[w].Err = ErrCancelled
                /\ workers'[w].pos = workers[w].pos
                /\ workers'[w].downloadedSize = workers[w].downloadedSize
                /\ fs' = fs]_vars
    /\ [][\A w \in Slots :
            (workers[w].pc = "record" /\ workers[w].Err = ErrCancelled
               /\ Steps(w)) =>
                /\ fs' = fs
                /\ results' = Append(results,
                                [URL |-> workers[w].url,
                                 Filename |-> workers[w].Filename,
                                 Err |-> ErrCancelled])]_vars
    /\ [](\A w \in Slots :
            (workers[w].pc = "record" /\ workers[w].Err = ErrCancelled) =>
                LET file == fs[workers[w].Filename]
                IN  /\ file.exists
                    /\ Len(file.data) >= workers[w].pos
                    /\ Suffix(file.data, workers[w].pos) =
                          BodyBytes(0, workers[w].pos)
                    /\ workers[w].mode = "create" =>
                          Len(file.data) = workers[w].pos
                    /\ workers[w].mode = "append" =>
                          Len(file.data) = workers[w].downloadedSize)

\* a fresh transfer of three bytes was cancelled after its first two
C16_Witness ==
    /\ Returned
    /\ Len(results) = 1
    /\ results[1].Err = ErrCancelled
    /\ server[results[1].URL].bodyLen = 3
    /\ fs[results[1].Filename] = File(<<1, 2>>)

\* the 2xx class of status codes
Success2xx == 200..299

(* C17, as stated: a response is rejected with the non-OK status error      *)
(* exactly when its status code is not 2xx; every non-2xx response yields   *)
(* the error without touching the output file, every 2xx response goes on   *)
(* to size probing and the resume decision.                                  *)
C17_RejectedIffNot2xx ==
    [][\A w \in Slots :
          LET status == server[workers[w].url].status
          IN  (workers[w].pc = "resp" /\ Steps(w)) =>
                  /\ (workers'[w].Err = ErrStatus) <=> (status \notin Success2xx)
                  /\ fs' = fs]_vars

(* C17, amended: a response is rejected with the non-OK status error        *)
(* exactly when its status code is not 200; every other response, 2xx ones  *)
(* such as 206 included, yields the error without touching the output file, *)
(* and every 200 response goes on to size probing (ending there with the    *)
(* zero-size error, or reaching the resume decision with the size read).     *)
C17_RejectedIffNot200 ==
    /\ [][\A w \in Slots :
            LET r == server[workers[w].url]
                after == workers'[w]
            IN  (workers[w].pc = "resp" /\ Steps(w)) =>
                    /\ (after.Err = ErrStatus) <=> (r.status # 200)
                    /\ r.status # 200 =>
                          (after.pc = "record" /\ after.Filename = "")
                    /\ r.status = 200 =>
                          \/ after.pc = "record" /\ after.Err = ErrZeroSize
                          \/ /\ after.pc = "stat"
                             /\ after.totalSize = getFileSize(r.header)
                    /\ fs' = fs]_vars
    /\ [](\A k \in DOMAIN results :
            results[k].Err = ErrStatus =>
                server[results[k].URL].status # 200)

\* a 206 response, a 2xx status, was rejected and the partial file left alone
C17_Witness ==
    /\ Returned
    /\ Len(results) = 1
    /\ results[1].Err = ErrStatus
    /\ server[results[1].URL].status = 206
    /\ fs["f"] = OldFile(1)

\* the bytes of a file that were there before the transfer (old bytes are 0)
KeptBytes(data) == Cardinality({k \in DOMAIN data : data[k] = 0})

(* C18: in Resume mode the request carries no byte range and the existing   *)
(* bytes are kept: after a successful Resume of a local file of length L    *)
(* (0 < L < remote size) against a body of B bytes, the file's first L      *)
(* bytes are unchanged and its length is L + B, above the remote size       *)
(* whenever the body is the full content.                                    *)
C18_ResumeAppendsWholeBody ==
    \A w \in Slots :
        LET wk == workers[w]
            data == fs[wk.Filename].data
            L == KeptBytes(data)
            B == wk.bodyLen
        IN  (wk.pc = "record" /\ wk.plan = "Resume" /\ wk.Err = NoErr) =>
                /\ 0 < L /\ L < wk.totalSize
                /\ SubSeq(data, 1, L) = OldFile(L).data
                /\ Len(data) = L + B
                /\ B = wk.totalSize => Len(data) > wk.totalSize

(* C20: a transfer returns success only after a read reports end of stream, *)
(* and then every byte the body delivered over all reads has been written   *)
(* to the file, the bytes of a final read that returns data together with   *)
(* end of stream included; so a successful Fresh or Restart leaves a file   *)
(* whose length is the body length.                                          *)
C20_SuccessWritesWholeBody ==
    \A w \in Slots :
        LET wk == workers[w]
            data == fs[wk.Filename].data
        IN  (wk.pc = "record" /\ wk.Err = NoErr /\ wk.mode # "") =>
                /\ wk.pos = wk.bodyLen
                /\ Len(data) >= wk.pos
                /\ Suffix(data, wk.pos) = BodyBytes(0, wk.pos)
                /\ wk.plan \in {"Fresh", "Restart"} => Len(data) = wk.bodyLen

(* C19: worker i (0 <= i < numWorkers) uses display line i for every job it *)
(* processes; in every reachable state any two downloads in flight at the   *)
(* same time have different display lines, each within 0..numWorkers-1, and *)
(* a line is reused only by later jobs of the same worker.                   *)
C19_OneLinePerWorker ==
    /\ [](\A w \in Slots :
            /\ workers[w].line = w
            /\ InFlight(w) => workers[w].line \in 0..(numWorkers - 1))
    /\ [](\A w, v \in Slots :
            (w # v /\ InFlight(w) /\ InFlight(v)) =>
                workers[w].line # workers[v].line)
    /\ [][\A w \in Slots : workers'[w].line = workers[w].line]_vars

\* two downloads are in flight on lines 0 and 1, one of them a later job of
\* its worker
C19_Witness ==
    /\ InFlight(0)
    /\ InFlight(1)
    /\ workers[0].line = 0
    /\ workers[1].line = 1
    /\ Len(results) = 1

=============================================================================
